---- MODULE Spec2Model ----
(***************************************************************************)
(* Model of the Automata dashboard's client-side synchronisation layers:   *)
(* the tool management view with its pending-change buffer                 *)
(* (ToolManagementView.vue), the task monitor views (TaskDetailView.vue    *)
(* and the task list view whose script is in MainLayout.vue, lines         *)
(* 540-738) and the conversation handlers with their store (MainLayout.vue *)
(* lines 98-164, ChatView.vue).  Every handler runs to its next await in   *)
(* one step; a request                                                     *)
(* in flight is a message that the backend answers and that is later       *)
(* delivered to the continuation of the handler that sent it.              *)
(***************************************************************************)
EXTENDS Integers, Sequences, FiniteSets, Bags, TLC

VARIABLES
    \* ---- ToolManagementView.vue ----
    tools,            \* ref<ToolStatus[]>: the displayed tool list
    pendingChanges,   \* ref<string[]>: the pending-change buffer
    loadingAll,       \* ref(false)
    saving,           \* ref(false)
    tnet,             \* requests of the tool view that are in flight
    treqs,            \* how many requests the operator has started
    sTools,           \* the backend's tool configuration
    stageLog,         \* history: per tool, the intents staged since the buffer
                      \* was last cleared (the latest two)
    okRun,            \* history: the successful reloads displayed in a row,
                      \* with no stage call and no failed reload between
                      \* them (up to 2)
    \* ---- the task monitor: TaskDetailView.vue, the task list view ----
    route,            \* the router's current route (name, params.id) and the
                      \* task-detail entries of the session history
    dv,               \* the instances of the task detail view
    lv,               \* the instances of the task list view
    net,              \* bag of the task views' requests that are in flight
    bTasks,           \* the backend's tasks: the status of each
    mreqs,            \* how many operations the operator and the timers started
    \* ---- the conversations: MainLayout.vue's sidebar, ChatView.vue ----
    store,            \* conversationsStore.currentConversationId
    ml,               \* MainLayout: currentConversationId, conversations
    chat,             \* ChatView: isLoading
    cnet,             \* bag of the conversation requests that are in flight
    bConvs,           \* the backend's conversations and the one of the session
    creqs,            \* how many conversation operations the user started
    \* ---- history shared by the views ----
    ev                \* the handler that ran last and the notice it raised

toolVars == <<tools, pendingChanges, loadingAll, saving, tnet, treqs, sTools, stageLog, okRun>>

taskVars == <<route, dv, lv, net, bTasks, mreqs>>

chatVars == <<store, ml, chat, cnet, bConvs, creqs>>

vars == <<toolVars, taskVars, chatVars, ev>>

(***************************************************************************)
(* Bounds                                                                  *)
(***************************************************************************)
\* reloads and flushes the operator starts after the view has mounted
MaxToolReqs == 2

\* operations of the task views that send a request: clicks, filter changes
\* and timer ticks
MaxTaskReqs == 2

\* instances of each task view created while the dashboard is open
MaxViews == 1

MaxChatReqs == 3

(***************************************************************************)
(* Values                                                                  *)
(***************************************************************************)
Absent == "<absent>"

\* the tools the backend serves, in the order of its reply
ToolOrder == <<"search", "fetch">>

ToolNames == {ToolOrder[i] : i \in 1..Len(ToolOrder)}

\* `enable:${toolName}` / `disable:${toolName}`: the tag and the name
Tag(op, toolName) == <<op, toolName>>

TagOp(tag) == tag[1]

TagName(tag) == tag[2]

\* an event: the handler, what it was called with or resumed on, its notice
Event(op, arg, alert) == [op |-> op, arg |-> arg, alert |-> alert]

NoResp == [st |-> "none", tools |-> <<>>, body |-> [detail |-> Absent, error |-> Absent]]

\* the error bodies a non-2xx reply of save-and-reload may carry
ErrBodies ==
    { [detail |-> Absent, error |-> "quart"],
      [detail |-> "fastapi", error |-> Absent] }

ToolsMsg(cont) ==
    [kind |-> "tools", cont |-> cont, changes |-> <<>>, resp |-> NoResp,
     staged |-> FALSE, reloaded |-> FALSE]

SaveMsg(changes) ==
    [kind |-> "save", cont |-> "top", changes |-> changes, resp |-> NoResp,
     staged |-> FALSE, reloaded |-> FALSE]

(***************************************************************************)
(* Array helpers (Array.prototype.includes / indexOf / splice / find)      *)
(***************************************************************************)
Includes(s, e) == \E i \in 1..Len(s) : s[i] = e

\* the first index of e in s, 0 when absent (indexOf's -1)
IndexOf(s, e) ==
    IF Includes(s, e) THEN CHOOSE i \in 1..Len(s) : s[i] = e /\ \A j \in 1..(i-1) : s[j] # e
    ELSE 0

\* s.splice(i, 1)
Splice1(s, i) == [j \in 1..(Len(s) - 1) |-> IF j < i THEN s[j] ELSE s[j + 1]]

Range(s) == {s[i] : i \in 1..Len(s)}

\* tools.value.find(t => t.name === toolName): its index, 0 when undefined
FindTool(list, toolName) ==
    IF \E i \in 1..Len(list) : list[i].name = toolName
    THEN CHOOSE i \in 1..Len(list) :
             list[i].name = toolName /\ \A j \in 1..(i-1) : list[j].name # toolName
    ELSE 0

\* a stage call that sets tool.enabled and leaves tool.active
SetShownEnabledOnly(list, toolName, v) ==
    LET i == FindTool(list, toolName) IN
    IF i = 0 THEN list
    ELSE [list EXCEPT ![i] = [name |-> toolName, enabled |-> v, active |-> list[i].active]]

\* a stage call that sets the flags of every displayed tool
SetShownEverywhere(list, toolName, v) ==
    [i \in 1..Len(list) |-> [name |-> list[i].name, enabled |-> v, active |-> v]]

\* tool.enabled = v; tool.active = v on the tool found, nothing when none
SetShown(list, toolName, v) ==
    LET i == FindTool(list, toolName) IN
    IF i = 0 THEN list
    ELSE [list EXCEPT ![i] = [name |-> toolName, enabled |-> v, active |-> v]]

\* the reply of GET /tools for a backend configuration
ToolList(cfg) ==
    [i \in 1..Len(ToolOrder) |->
        [name |-> ToolOrder[i],
         enabled |-> cfg[ToolOrder[i]].enabled,
         active |-> cfg[ToolOrder[i]].active]]

\* history: the log of one tool after one more stage call
Logged(log, intent) ==
    IF log = <<>> THEN <<intent>> ELSE <<log[Len(log)], intent>>

NoLog == [n \in ToolNames |-> <<>>]

\* history flags of the flushes in flight
MarkStaged(q) ==
    [i \in 1..Len(q) |->
        IF q[i].kind = "save" THEN [q[i] EXCEPT !.staged = TRUE] ELSE q[i]]

MarkReloaded(q) ==
    [i \in 1..Len(q) |->
        IF q[i].kind = "save" THEN [q[i] EXCEPT !.reloaded = TRUE] ELSE q[i]]

(***************************************************************************)
(* Stage: enableTool / disableTool                                         *)
(***************************************************************************)
\* enableTool without the removal of the opposite entry
EnableBufferKeepsDisable(buf, toolName) ==
    IF ~Includes(buf, Tag("enable", toolName))
    THEN Append(buf, Tag("enable", toolName)) ELSE buf

\* pendingChanges after enableTool's push and splice
EnableBuffer(buf, toolName) ==
    LET pushed == IF ~Includes(buf, Tag("enable", toolName))
                  THEN Append(buf, Tag("enable", toolName)) ELSE buf
        disableIndex == IndexOf(pushed, Tag("disable", toolName))
    IN  IF disableIndex > 0 THEN Splice1(pushed, disableIndex) ELSE pushed

\* pendingChanges after disableTool's push and splice
DisableBuffer(buf, toolName) ==
    LET pushed == IF ~Includes(buf, Tag("disable", toolName))
                  THEN Append(buf, Tag("disable", toolName)) ELSE buf
        enableIndex == IndexOf(pushed, Tag("enable", toolName))
    IN  IF enableIndex > 0 THEN Splice1(pushed, enableIndex) ELSE pushed

enableTool(toolName) ==
    /\ pendingChanges' = EnableBuffer(pendingChanges, toolName)
    /\ tools' = SetShown(tools, toolName, TRUE)
    /\ stageLog' = [stageLog EXCEPT ![toolName] = Logged(@, "enable")]
    /\ okRun' = 0
    /\ tnet' = MarkStaged(tnet)
    /\ ev' = Event("enableTool", toolName, Absent)
    /\ UNCHANGED <<loadingAll, saving, sTools, treqs>>
    /\ UNCHANGED <<taskVars, chatVars>>


disableTool(toolName) ==
    /\ pendingChanges' = DisableBuffer(pendingChanges, toolName)
    /\ tools' = SetShown(tools, toolName, FALSE)
    /\ stageLog' = [stageLog EXCEPT ![toolName] = Logged(@, "disable")]
    /\ okRun' = 0
    /\ tnet' = MarkStaged(tnet)
    /\ ev' = Event("disableTool", toolName, Absent)
    /\ UNCHANGED <<loadingAll, saving, sTools, treqs>>
    /\ UNCHANGED <<taskVars, chatVars>>


\* the enable button exists for a displayed tool that is not enabled
ClickEnable(toolName) ==
    /\ \E i \in 1..Len(tools) : tools[i].name = toolName /\ ~tools[i].enabled
    /\ enableTool(toolName)

\* the disable button exists for a displayed tool that is enabled
ClickDisable(toolName) ==
    /\ \E i \in 1..Len(tools) : tools[i].name = toolName /\ tools[i].enabled
    /\ disableTool(toolName)

(***************************************************************************)
(* Reload: loadTools                                                       *)
(***************************************************************************)
\* loadTools up to its await fetch('/api/tools'); cont names the caller that
\* awaits it: "top" (onMounted, the refresh button) or "save" (saveAndReload)
loadTools(q, cont) == Append(q, ToolsMsg(cont))

\* a flush whose finally block does not reset the saving flag
SavingStays(cont) == saving

\* the finally blocks that run when loadTools returns to its caller
SavingAfterLoad(cont) == IF cont = "save" THEN FALSE ELSE saving

\* pendingChanges after loadTools' try block ran to its end
ClearedBuffer == <<>>

\* the refresh button, disabled while loadingAll
ClickRefresh ==
    /\ ~loadingAll
    /\ treqs < MaxToolReqs
    /\ treqs' = treqs + 1
    /\ loadingAll' = TRUE
    /\ tnet' = loadTools(tnet, "top")
    /\ ev' = Event("loadTools", Absent, Absent)
    /\ UNCHANGED <<tools, pendingChanges, saving, sTools, stageLog, okRun>>
    /\ UNCHANGED <<taskVars, chatVars>>


\* loadTools called whatever loadingAll is
CallLoadTools ==
    /\ treqs < MaxToolReqs
    /\ treqs' = treqs + 1
    /\ loadingAll' = TRUE
    /\ tnet' = loadTools(tnet, "top")
    /\ ev' = Event("loadTools", Absent, Absent)
    /\ UNCHANGED <<tools, pendingChanges, saving, sTools, stageLog, okRun>>
    /\ UNCHANGED <<taskVars, chatVars>>


\* a reload that clears the buffer and keeps the displayed list
loadToolsOkKeepsList(i) ==
    /\ tnet[i].kind = "tools"
    /\ tnet[i].resp.st = "ok"
    /\ pendingChanges' = ClearedBuffer
    /\ loadingAll' = FALSE
    /\ saving' = SavingAfterLoad(tnet[i].cont)
    /\ tnet' = MarkReloaded(Splice1(tnet, i))
    /\ ev' = Event("loadTools.ok", tnet[i], Absent)
    /\ UNCHANGED <<tools, sTools, treqs>>
    /\ stageLog' = NoLog
    /\ okRun' = IF okRun < 2 THEN okRun + 1 ELSE 2
    /\ UNCHANGED <<taskVars, chatVars>>

\* a reload that pushes the reply's tools onto the displayed list
loadToolsOkAppends(i) ==
    /\ tnet[i].kind = "tools"
    /\ tnet[i].resp.st = "ok"
    /\ tools' = tools \o tnet[i].resp.tools
    /\ pendingChanges' = ClearedBuffer
    /\ loadingAll' = FALSE
    /\ saving' = SavingAfterLoad(tnet[i].cont)
    /\ tnet' = MarkReloaded(Splice1(tnet, i))
    /\ ev' = Event("loadTools.ok", tnet[i], Absent)
    /\ UNCHANGED <<sTools, treqs>>
    /\ stageLog' = NoLog
    /\ okRun' = IF okRun < 2 THEN okRun + 1 ELSE 2
    /\ UNCHANGED <<taskVars, chatVars>>

\* toolsResponse.ok: the list is replaced (toolsData.tools || [], the reply
\* carrying its list) and the buffer cleared
loadToolsOk(i) ==
    /\ tnet[i].kind = "tools"
    /\ tnet[i].resp.st = "ok"
    /\ tools' = tnet[i].resp.tools
    /\ pendingChanges' = ClearedBuffer
    /\ loadingAll' = FALSE
    /\ saving' = SavingAfterLoad(tnet[i].cont)
    /\ tnet' = MarkReloaded(Splice1(tnet, i))
    /\ ev' = Event("loadTools.ok", tnet[i], Absent)
    /\ UNCHANGED <<sTools, treqs>>
    /\ stageLog' = NoLog
    /\ okRun' = IF okRun < 2 THEN okRun + 1 ELSE 2
    /\ UNCHANGED <<taskVars, chatVars>>


\* a reply that is not ok: the list stays, the buffer is cleared
loadToolsNotOk(i) ==
    /\ tnet[i].kind = "tools"
    /\ tnet[i].resp.st = "err"
    /\ pendingChanges' = ClearedBuffer
    /\ loadingAll' = FALSE
    /\ saving' = SavingAfterLoad(tnet[i].cont)
    /\ tnet' = MarkReloaded(Splice1(tnet, i))
    /\ ev' = Event("loadTools.notok", tnet[i], Absent)
    /\ UNCHANGED <<tools, sTools, treqs>>
    /\ stageLog' = NoLog
    /\ okRun' = 0
    /\ UNCHANGED <<taskVars, chatVars>>


\* fetch or json() rejects: the catch block alerts, the buffer is not touched
loadToolsThrow(i) ==
    /\ tnet[i].kind = "tools"
    /\ loadingAll' = FALSE
    /\ saving' = SavingAfterLoad(tnet[i].cont)
    /\ tnet' = Splice1(tnet, i)
    /\ ev' = Event("loadTools.throw", tnet[i], "load failed")
    /\ UNCHANGED <<tools, pendingChanges, sTools, stageLog, treqs>>
    /\ okRun' = 0
    /\ UNCHANGED <<taskVars, chatVars>>


(***************************************************************************)
(* Flush: saveAndReload                                                    *)
(***************************************************************************)
\* a body that carries the first entry only
SaveBodyFirstOnly(buf) == <<buf[1]>>

\* JSON.stringify({changes: pendingChanges.value})
SaveBody(buf) == buf

\* a flush without the early return on an empty buffer
saveAndReloadSendsEmpty ==
    /\ treqs < MaxToolReqs
    /\ treqs' = treqs + 1
    /\ saving' = TRUE
    /\ tnet' = Append(tnet, SaveMsg(SaveBody(pendingChanges)))
    /\ ev' = Event("saveAndReload", Absent, Absent)
    /\ UNCHANGED <<tools, pendingChanges, loadingAll, sTools, stageLog, okRun>>
    /\ UNCHANGED <<taskVars, chatVars>>

saveAndReload ==
    IF Len(pendingChanges) = 0
    THEN /\ ev' = Event("saveAndReload.empty", Absent, "nothing to save")
         /\ UNCHANGED <<toolVars, taskVars, chatVars>>
    ELSE /\ treqs < MaxToolReqs
         /\ treqs' = treqs + 1
         /\ saving' = TRUE
         /\ tnet' = Append(tnet, SaveMsg(SaveBody(pendingChanges)))
         /\ ev' = Event("saveAndReload", Absent, Absent)
         /\ UNCHANGED <<tools, pendingChanges, loadingAll, sTools, stageLog, okRun>>
         /\ UNCHANGED <<taskVars, chatVars>>

\* the save button, disabled while saving or with an empty buffer
ClickSave ==
    /\ ~saving
    /\ Len(pendingChanges) # 0
    /\ saveAndReload

\* history: the reload a flush awaits carries the flush's staged flag
AfterFlush(q, m) == [q EXCEPT ![Len(q)].staged = m.staged]

\* a success handler that keeps the entries staged after the batch was sent
saveOkKeepsUnsent(i) ==
    /\ tnet[i].kind = "save"
    /\ tnet[i].resp.st = "ok"
    /\ pendingChanges' = SelectSeq(pendingChanges, LAMBDA c : ~Includes(tnet[i].changes, c))
    /\ loadingAll' = TRUE
    /\ tnet' = AfterFlush(loadTools(MarkReloaded(Splice1(tnet, i)), "save"), tnet[i])
    /\ ev' = Event("saveAndReload.ok", tnet[i], "saved")
    /\ UNCHANGED <<tools, saving, sTools, treqs>>
    /\ stageLog' = NoLog
    /\ UNCHANGED okRun
    /\ UNCHANGED <<taskVars, chatVars>>

\* response.ok: the buffer is cleared and loadTools is awaited
saveOk(i) ==
    /\ tnet[i].kind = "save"
    /\ tnet[i].resp.st = "ok"
    /\ pendingChanges' = <<>>
    /\ loadingAll' = TRUE
    /\ tnet' = AfterFlush(loadTools(MarkReloaded(Splice1(tnet, i)), "save"), tnet[i])
    /\ ev' = Event("saveAndReload.ok", tnet[i], "saved")
    /\ UNCHANGED <<tools, saving, sTools, treqs>>
    /\ stageLog' = NoLog
    /\ UNCHANGED okRun
    /\ UNCHANGED <<taskVars, chatVars>>


\* api/utils.ts getErrorMessage for an object body (the error bodies of the
\* model are objects, the typeof string branch has no input here): detail
\* first, then error, then the fixed text
getErrorMessage(errorData) ==
    IF errorData.detail # Absent THEN errorData.detail
    ELSE IF errorData.error # Absent THEN errorData.error
    ELSE "unknown error"

\* alert(`保存失败: ${error.error}`)
SaveFailedNotice(body) == body.error

\* a failure handler that drops the buffer
saveNotOkClears(i) ==
    /\ tnet[i].kind = "save"
    /\ tnet[i].resp.st = "err"
    /\ saving' = FALSE
    /\ pendingChanges' = <<>>
    /\ tnet' = Splice1(tnet, i)
    /\ ev' = Event("saveAndReload.notok", tnet[i], SaveFailedNotice(tnet[i].resp.body))
    /\ UNCHANGED <<tools, loadingAll, sTools, stageLog, okRun, treqs>>
    /\ UNCHANGED <<taskVars, chatVars>>


\* a reply that is not ok: the error is shown, saving ends
saveNotOk(i) ==
    /\ tnet[i].kind = "save"
    /\ tnet[i].resp.st = "err"
    /\ saving' = FALSE
    /\ tnet' = Splice1(tnet, i)
    /\ ev' = Event("saveAndReload.notok", tnet[i], SaveFailedNotice(tnet[i].resp.body))
    /\ UNCHANGED <<tools, pendingChanges, loadingAll, sTools, stageLog, okRun, treqs>>
    /\ UNCHANGED <<taskVars, chatVars>>


\* fetch or json() rejects
saveThrow(i) ==
    /\ tnet[i].kind = "save"
    /\ saving' = FALSE
    /\ tnet' = Splice1(tnet, i)
    /\ ev' = Event("saveAndReload.throw", tnet[i], "save failed")
    /\ UNCHANGED <<tools, pendingChanges, loadingAll, sTools, stageLog, okRun, treqs>>
    /\ UNCHANGED <<taskVars, chatVars>>


(***************************************************************************)
(* The backend behind /api/tools                                           *)
(***************************************************************************)
RECURSIVE ApplyChanges(_, _)
\* the configuration after the changes were applied in order
ApplyChanges(cfg, changes) ==
    IF changes = <<>> THEN cfg
    ELSE LET on == TagOp(Head(changes)) = "enable" IN
         ApplyChanges(
             [cfg EXCEPT ![TagName(Head(changes))] = [enabled |-> on, active |-> on]],
             Tail(changes))

\* GET /tools answered: the current configuration, or a non-2xx reply
ServeTools(i) ==
    /\ tnet[i].kind = "tools"
    /\ tnet[i].resp.st = "none"
    /\ \E st \in {"ok", "err"} :
         tnet' = [tnet EXCEPT ![i].resp =
                    [NoResp EXCEPT !.st = st,
                                   !.tools = IF st = "ok" THEN ToolList(sTools) ELSE <<>>]]
    /\ ev' = Event("server.tools", Absent, Absent)
    /\ UNCHANGED <<tools, pendingChanges, loadingAll, saving, sTools, stageLog, okRun, treqs>>
    /\ UNCHANGED <<taskVars, chatVars>>


\* POST /tools/save-and-reload applied as a whole
ServeSaveOk(i) ==
    /\ tnet[i].kind = "save"
    /\ tnet[i].resp.st = "none"
    /\ sTools' = ApplyChanges(sTools, tnet[i].changes)
    /\ tnet' = [tnet EXCEPT ![i].resp = [NoResp EXCEPT !.st = "ok"]]
    /\ ev' = Event("server.save", Absent, Absent)
    /\ UNCHANGED <<tools, pendingChanges, loadingAll, saving, stageLog, okRun, treqs>>
    /\ UNCHANGED <<taskVars, chatVars>>


\* POST /tools/save-and-reload refused: nothing is applied
ServeSaveErr(i) ==
    /\ tnet[i].kind = "save"
    /\ tnet[i].resp.st = "none"
    /\ \E body \in ErrBodies :
         tnet' = [tnet EXCEPT ![i].resp = [NoResp EXCEPT !.st = "err", !.body = body]]
    /\ ev' = Event("server.save.err", Absent, Absent)
    /\ UNCHANGED <<tools, pendingChanges, loadingAll, saving, sTools, stageLog, okRun, treqs>>
    /\ UNCHANGED <<taskVars, chatVars>>


(***************************************************************************)
(* The task monitor: values                                                *)
(***************************************************************************)
\* the tasks the backend holds, in the order of its replies
TaskOrder == <<"t1", "t2">>

TaskIds == {TaskOrder[i] : i \in 1..Len(TaskOrder)}

Statuses == {"pending", "running", "completed", "failed"}

\* the status of a task the backend has deleted
Gone == "gone"

\* options of the list view's status filter: all, running, completed
Filters == {"", "running", "completed"}

Views == 1..MaxViews

\* task.result.steps as the backend reports it for a status
StepsOf(status) ==
    CASE status = "running" -> <<"s1">>
      [] status = "completed" -> <<"s1", "s2">>
      [] status = "failed" -> <<"s1">>
      [] OTHER -> <<>>

\* the task object of a reply: result.steps is there once the task has started
TaskOf(id, status) ==
    [task_id |-> id, status |-> status,
     hasSteps |-> status # "pending", steps |-> StepsOf(status)]

\* ref<Task | null>(null)
NoTask == [task_id |-> Absent, status |-> Absent, hasSteps |-> FALSE, steps |-> <<>>]

\* ref<TaskStats | null>(null)
NoStats ==
    [null |-> TRUE, total |-> 0, pending |-> 0, running |-> 0, completed |-> 0,
     failed |-> 0]

NoReply == [st |-> "none", task |-> NoTask, tasks |-> <<>>, stats |-> NoStats]

\* a request of task view `owner` (an instance of `view`)
TaskMsg(view, owner, kind, arg) ==
    [view |-> view, owner |-> owner, kind |-> kind, arg |-> arg, resp |-> NoReply]

\* route.params.id, undefined off the detail route
RouteId == IF route.name = "task-detail" THEN route.id ELSE "undefined"

TasksRoute == [name |-> "tasks", id |-> Absent, visited |-> route.visited]

DetailRoute(id) ==
    [name |-> "task-detail", id |-> id, visited |-> route.visited \cup {id}]

(***************************************************************************)
(* The backend behind /api/tasks                                           *)
(***************************************************************************)
CountOf(b, status) == Cardinality({t \in TaskIds : b[t] = status})

\* GET /tasks/stats
StatsOf(b) ==
    [null |-> FALSE,
     total |-> Cardinality({t \in TaskIds : b[t] # Gone}),
     pending |-> CountOf(b, "pending"), running |-> CountOf(b, "running"),
     completed |-> CountOf(b, "completed"), failed |-> CountOf(b, "failed")]

\* GET /tasks?status=filter
TasksOf(b, filter) ==
    LET keep(t) == b[t] # Gone /\ (filter = "" \/ b[t] = filter) IN
    SelectSeq([i \in 1..Len(TaskOrder) |-> [task_id |-> TaskOrder[i], status |-> b[TaskOrder[i]]]],
              LAMBDA x : keep(x.task_id))

\* the agent engine moves a task: pending -> running -> completed
BackendStep(t) ==
    /\ \/ bTasks[t] = "pending" /\ bTasks' = [bTasks EXCEPT ![t] = "running"]
       \/ bTasks[t] = "running" /\ bTasks' = [bTasks EXCEPT ![t] = "completed"]
    /\ ev' = Event("backend.step", t, Absent)
    /\ UNCHANGED <<route, dv, lv, net, mreqs, toolVars, chatVars>>

\* the requests in flight without one copy of m
Take(n, x) == n (-) SetToBag({x})

\* the reply to request m, and the backend's tasks after it
ServedReply(m) ==
    CASE m.kind = "detail" ->
            IF m.arg \in TaskIds /\ bTasks[m.arg] # Gone
            THEN {[NoReply EXCEPT !.st = "success", !.task = TaskOf(m.arg, bTasks[m.arg])],
                  [NoReply EXCEPT !.st = "error"]}
            ELSE {[NoReply EXCEPT !.st = "error"]}
      [] m.kind = "list" ->
            {[NoReply EXCEPT !.st = "success", !.tasks = TasksOf(bTasks, m.arg)],
             [NoReply EXCEPT !.st = "error"]}
      [] m.kind = "stats" ->
            {[NoReply EXCEPT !.st = "success", !.stats = StatsOf(bTasks)],
             [NoReply EXCEPT !.st = "error"]}
      [] m.kind = "cancel" ->
            IF m.arg \in TaskIds /\ bTasks[m.arg] = "running"
            THEN {[NoReply EXCEPT !.st = "success"]}
            ELSE {[NoReply EXCEPT !.st = "error"]}
      [] m.kind = "delete" ->
            IF m.arg \in TaskIds /\ bTasks[m.arg] \in {"completed", "failed"}
            THEN {[NoReply EXCEPT !.st = "success"]}
            ELSE {[NoReply EXCEPT !.st = "error"]}

\* a cancelled task ends as failed, a deleted task is gone
ServedTasks(m, reply) ==
    IF reply.st # "success" THEN bTasks
    ELSE CASE m.kind = "cancel" -> [bTasks EXCEPT ![m.arg] = "failed"]
           [] m.kind = "delete" -> [bTasks EXCEPT ![m.arg] = Gone]
           [] OTHER -> bTasks

\* the backend answers request k
Serve(m) ==
    /\ m.resp.st = "none"
    /\ \E reply \in ServedReply(m) :
          /\ net' = Take(net, m) (+) SetToBag({[m EXCEPT !.resp = reply]})
          /\ bTasks' = ServedTasks(m, reply)
    /\ ev' = Event("backend.serve", m.kind, Absent)
    /\ UNCHANGED <<route, dv, lv, mreqs, toolVars, chatVars>>

(***************************************************************************)
(* Mounting and unmounting the task views                                  *)
(***************************************************************************)
\* a view instance not created yet
DetailUnborn ==
    [state |-> "unborn", task |-> NoTask, steps |-> <<>>, loading |-> FALSE,
     refreshInterval |-> FALSE, armed |-> FALSE, late |-> 0]

ListUnborn ==
    [state |-> "unborn", tasks |-> <<>>, stats |-> NoStats, loading |-> FALSE,
     filterStatus |-> "", autoRefresh |-> FALSE, refreshInterval |-> FALSE,
     armed |-> 0]

\* TaskDetailView after setup and onMounted: loadTask has set loading and the
\* interval is armed
DetailMounted ==
    [DetailUnborn EXCEPT !.state = "mounted", !.loading = TRUE,
                         !.refreshInterval = TRUE, !.armed = TRUE]

\* the list view after setup and onMounted: refreshTasks has set loading
ListMounted == [ListUnborn EXCEPT !.state = "mounted", !.loading = TRUE]

\* an unmount that leaves the interval running
DetailUnmountedKeepsTimer(d) == [d EXCEPT !.state = "unmounted"]

\* TaskDetailView's onUnmounted: clearInterval when the handle is set
DetailUnmounted(d) ==
    [d EXCEPT !.state = "unmounted",
              !.armed = IF d.refreshInterval THEN FALSE ELSE d.armed]

\* the list view's onUnmounted: clearInterval when the handle is set
ListUnmounted(l) ==
    [l EXCEPT !.state = "unmounted",
              !.armed = IF l.refreshInterval THEN l.armed - 1 ELSE l.armed]

HasFree(v) == \E i \in Views : v[i].state = "unborn"

Free(v) == CHOOSE i \in Views : v[i].state = "unborn" /\ \A j \in 1..(i-1) : v[j].state # "unborn"

\* refreshTasks of list instance j: loadTasks and loadStats up to their fetch
refreshTasks(n, j, filter) ==
    n (+) SetToBag({TaskMsg("list", j, "list", filter), TaskMsg("list", j, "stats", Absent)})

\* loadTask of detail instance i up to its fetch(`/api/tasks/${taskId.value}`)
loadTask(n, i, id) == n (+) SetToBag({TaskMsg("detail", i, "detail", id)})

\* router.push('/tasks') from (dvIn, netIn): nothing on the tasks route;
\* otherwise the detail view is unmounted and a list view is mounted
PushTasks(dvIn, netIn) ==
    IF route.name = "tasks"
    THEN /\ route' = route
         /\ dv' = dvIn
         /\ lv' = lv
         /\ net' = netIn
    ELSE /\ HasFree(lv)
         /\ route' = TasksRoute
         /\ dv' = [i \in Views |->
                     IF dvIn[i].state = "mounted" THEN DetailUnmounted(dvIn[i]) ELSE dvIn[i]]
         /\ lv' = [lv EXCEPT ![Free(lv)] = ListMounted]
         /\ net' = refreshTasks(netIn, Free(lv), "")

\* router.push(`/tasks/${taskId}`) from the list view j
PushDetail(j, id) ==
    /\ HasFree(dv)
    /\ route' = DetailRoute(id)
    /\ lv' = [lv EXCEPT ![j] = ListUnmounted(@)]
    /\ dv' = [dv EXCEPT ![Free(dv)] = DetailMounted]
    /\ net' = loadTask(net, Free(dv), id)

(***************************************************************************)
(* TaskDetailView.vue                                                      *)
(***************************************************************************)
Min(a, b) == IF a < b THEN a ELSE b

Owns(m, view, kind) == m.view = view /\ m.kind = kind

\* loadTask's loading.value = true
Loading(d) == [d EXCEPT !.loading = TRUE]

\* history: one more fetch by a tick for the target the backend has completed
Counted(d) ==
    [d EXCEPT !.late = IF RouteId \in TaskIds /\ bTasks[RouteId] = "completed"
                       THEN Min(@ + 1, 2) ELSE @]

\* a tick that fetches whatever the status of a loaded task is
TickFetchesAnyStatus(d) == d.task.status # Absent

\* the interval callback's test: task.value?.status === 'running'
TickFetches(d) == d.task.status = "running"

\* the interval callback of detail instance i
DetailTick(i) ==
    /\ dv[i].armed
    /\ IF TickFetches(dv[i])
       THEN /\ mreqs < MaxTaskReqs
            /\ mreqs' = mreqs + 1
            /\ dv' = [dv EXCEPT ![i] = Counted(Loading(@))]
            /\ net' = loadTask(net, i, RouteId)
       ELSE UNCHANGED <<dv, net, mreqs>>
    /\ ev' = Event("detail.tick", i, Absent)
    /\ UNCHANGED <<route, lv, bTasks, toolVars, chatVars>>

\* the refresh button, disabled while loading
ClickRefreshTask(i) ==
    /\ dv[i].state = "mounted"
    /\ ~dv[i].loading
    /\ mreqs < MaxTaskReqs
    /\ mreqs' = mreqs + 1
    /\ dv' = [dv EXCEPT ![i] = Loading(@)]
    /\ net' = loadTask(net, i, RouteId)
    /\ ev' = Event("refreshTask", i, Absent)
    /\ UNCHANGED <<route, lv, bTasks, toolVars, chatVars>>

\* a failure handler that also stops the interval
FailedTaskStopsTimer(d) == [d EXCEPT !.loading = FALSE, !.armed = FALSE]

\* loadTask after a reply that is not a success, or after a throw
FailedTask(d) == [d EXCEPT !.loading = FALSE]

\* loadTask after a success reply: the task is replaced, the steps when the
\* reply has result.steps
LoadedTask(d, task) ==
    [d EXCEPT !.task = task,
              !.steps = IF task.hasSteps THEN task.steps ELSE @,
              !.loading = FALSE]

loadTaskSuccess(m) ==
    /\ Owns(m, "detail", "detail")
    /\ m.resp.st = "success"
    /\ dv' = [dv EXCEPT ![m.owner] = LoadedTask(@, m.resp.task)]
    /\ net' = Take(net, m)
    /\ ev' = Event("loadTask.success", m.owner, Absent)
    /\ UNCHANGED <<route, lv, bTasks, mreqs, toolVars, chatVars>>

\* data.status is not 'success'
loadTaskError(m) ==
    /\ Owns(m, "detail", "detail")
    /\ m.resp.st = "error"
    /\ dv' = [dv EXCEPT ![m.owner] = FailedTask(@)]
    /\ net' = Take(net, m)
    /\ ev' = Event("loadTask.error", m.owner, Absent)
    /\ UNCHANGED <<route, lv, bTasks, mreqs, toolVars, chatVars>>

\* fetch or json() rejects
loadTaskThrow(m) ==
    /\ Owns(m, "detail", "detail")
    /\ dv' = [dv EXCEPT ![m.owner] = FailedTask(@)]
    /\ net' = Take(net, m)
    /\ ev' = Event("loadTask.throw", m.owner, Absent)
    /\ UNCHANGED <<route, lv, bTasks, mreqs, toolVars, chatVars>>

\* a cancel that shows the task as failed before any reply
DetailClickCancelFlips(i) ==
    /\ dv[i].state = "mounted"
    /\ dv[i].task.status = "running"
    /\ mreqs < MaxTaskReqs
    /\ mreqs' = mreqs + 1
    /\ net' = net (+) SetToBag({TaskMsg("detail", i, "cancel", RouteId)})
    /\ dv' = [dv EXCEPT ![i].task.status = "failed"]
    /\ ev' = Event("cancelTask", i, Absent)
    /\ UNCHANGED <<route, lv, bTasks, toolVars, chatVars>>

\* the cancel button, shown for a running task
DetailClickCancel(i) ==
    /\ dv[i].state = "mounted"
    /\ dv[i].task.status = "running"
    /\ mreqs < MaxTaskReqs
    /\ mreqs' = mreqs + 1
    /\ net' = net (+) SetToBag({TaskMsg("detail", i, "cancel", RouteId)})
    /\ ev' = Event("cancelTask", i, Absent)
    /\ UNCHANGED <<route, dv, lv, bTasks, toolVars, chatVars>>

\* the delete button, shown for a completed or failed task
DetailClickDelete(i) ==
    /\ dv[i].state = "mounted"
    /\ dv[i].task.status \in {"completed", "failed"}
    /\ mreqs < MaxTaskReqs
    /\ mreqs' = mreqs + 1
    /\ net' = net (+) SetToBag({TaskMsg("detail", i, "delete", RouteId)})
    /\ ev' = Event("deleteTask", i, Absent)
    /\ UNCHANGED <<route, dv, lv, bTasks, toolVars, chatVars>>

\* cancelTask after a success reply: await refreshTask()
detailCancelSuccess(m) ==
    /\ Owns(m, "detail", "cancel")
    /\ m.resp.st = "success"
    /\ dv' = [dv EXCEPT ![m.owner] = Loading(@)]
    /\ net' = loadTask(Take(net, m), m.owner, RouteId)
    /\ ev' = Event("cancelTask.success", m.owner, Absent)
    /\ UNCHANGED <<route, lv, bTasks, mreqs, toolVars, chatVars>>

\* cancelTask or deleteTask of the detail view after a reply that is not a
\* success, or after a throw (fetch or json() rejects, whatever the backend
\* did): an alert
detailOpFailed(m) ==
    /\ m.view = "detail"
    /\ m.kind \in {"cancel", "delete"}
    /\ net' = Take(net, m)
    /\ ev' = Event(m.kind \o "Task.failed", m.owner, m.kind \o " failed")
    /\ UNCHANGED <<route, dv, lv, bTasks, mreqs, toolVars, chatVars>>

\* deleteTask after a success reply: router.push('/tasks')
detailDeleteSuccess(m) ==
    /\ Owns(m, "detail", "delete")
    /\ m.resp.st = "success"
    /\ PushTasks(dv, Take(net, m))
    /\ ev' = Event("deleteTask.success", m.owner, Absent)
    /\ UNCHANGED <<bTasks, mreqs, toolVars, chatVars>>

\* the back button: router.push('/tasks')
goBack(i) ==
    /\ dv[i].state = "mounted"
    /\ PushTasks(dv, net)
    /\ ev' = Event("goBack", i, Absent)
    /\ UNCHANGED <<bTasks, mreqs, toolVars, chatVars>>

\* the browser's history moves between two task-detail entries: the router
\* keeps the instance and params.id changes, nothing watches taskId; the
\* history count starts again for the new target
Retarget(i, id) ==
    /\ dv[i].state = "mounted"
    /\ route.name = "task-detail"
    /\ id \in route.visited
    /\ id # route.id
    /\ route' = [route EXCEPT !.id = id]
    /\ dv' = [dv EXCEPT ![i].late = 0]
    /\ ev' = Event("route.params", i, Absent)
    /\ UNCHANGED <<lv, net, bTasks, mreqs, toolVars, chatVars>>

(***************************************************************************)
(* The task list view (MainLayout.vue, second script)                      *)
(***************************************************************************)
\* a visible list that is the fetched list as it came
filteredTasksAsFetched(l) == l.tasks

\* filteredTasks, with an empty search query
filteredTasks(l) ==
    SelectSeq(l.tasks, LAMBDA t : l.filterStatus = "" \/ t.status = l.filterStatus)

Listed(l, id, statuses) ==
    \E x \in 1..Len(filteredTasks(l)) :
        filteredTasks(l)[x].task_id = id /\ filteredTasks(l)[x].status \in statuses

\* the refresh button, disabled while loading
ClickRefreshTasks(j) ==
    /\ lv[j].state = "mounted"
    /\ ~lv[j].loading
    /\ mreqs < MaxTaskReqs
    /\ mreqs' = mreqs + 1
    /\ lv' = [lv EXCEPT ![j].loading = TRUE]
    /\ net' = refreshTasks(net, j, lv[j].filterStatus)
    /\ ev' = Event("refreshTasks", j, Absent)
    /\ UNCHANGED <<route, dv, bTasks, toolVars, chatVars>>

\* the status select: v-model and @change="refreshTasks"
ChangeFilter(j, f) ==
    /\ lv[j].state = "mounted"
    /\ f # lv[j].filterStatus
    /\ mreqs < MaxTaskReqs
    /\ mreqs' = mreqs + 1
    /\ lv' = [lv EXCEPT ![j].filterStatus = f, ![j].loading = TRUE]
    /\ net' = refreshTasks(net, j, f)
    /\ ev' = Event("filterStatus", j, Absent)
    /\ UNCHANGED <<route, dv, bTasks, toolVars, chatVars>>

\* a toggle that leaves the interval running when turned off
ToggledKeepsTimer(l) ==
    IF ~l.autoRefresh
    THEN [l EXCEPT !.autoRefresh = TRUE, !.refreshInterval = TRUE, !.armed = @ + 1]
    ELSE [l EXCEPT !.autoRefresh = FALSE]

\* toggleAutoRefresh: setInterval when turned on, clearInterval when off
Toggled(l) ==
    IF ~l.autoRefresh
    THEN [l EXCEPT !.autoRefresh = TRUE, !.refreshInterval = TRUE, !.armed = @ + 1]
    ELSE IF l.refreshInterval
         THEN [l EXCEPT !.autoRefresh = FALSE, !.refreshInterval = FALSE, !.armed = @ - 1]
         ELSE [l EXCEPT !.autoRefresh = FALSE]

toggleAutoRefresh(j) ==
    /\ lv[j].state = "mounted"
    /\ lv' = [lv EXCEPT ![j] = Toggled(@)]
    /\ ev' = Event("toggleAutoRefresh", j, Absent)
    /\ UNCHANGED <<route, dv, net, bTasks, mreqs, toolVars, chatVars>>

\* the interval callback of list instance j: refreshTasks()
ListTick(j) ==
    /\ lv[j].armed > 0
    /\ mreqs < MaxTaskReqs
    /\ mreqs' = mreqs + 1
    /\ lv' = [lv EXCEPT ![j].loading = TRUE]
    /\ net' = refreshTasks(net, j, lv[j].filterStatus)
    /\ ev' = Event("list.tick", j, Absent)
    /\ UNCHANGED <<route, dv, bTasks, toolVars, chatVars>>

\* a failure handler that empties the list
FailedTasksCleared(l) == [l EXCEPT !.loading = FALSE, !.tasks = <<>>]

\* loadTasks after a reply that is not a success, or after a throw
FailedTasks(l) == [l EXCEPT !.loading = FALSE]

loadTasksSuccess(m) ==
    /\ Owns(m, "list", "list")
    /\ m.resp.st = "success"
    /\ lv' = [lv EXCEPT ![m.owner].tasks = m.resp.tasks,
                        ![m.owner].loading = FALSE]
    /\ net' = Take(net, m)
    /\ ev' = Event("loadTasks.success", m.owner, Absent)
    /\ UNCHANGED <<route, dv, bTasks, mreqs, toolVars, chatVars>>

loadTasksError(m) ==
    /\ Owns(m, "list", "list")
    /\ m.resp.st = "error"
    /\ lv' = [lv EXCEPT ![m.owner] = FailedTasks(@)]
    /\ net' = Take(net, m)
    /\ ev' = Event("loadTasks.error", m.owner, Absent)
    /\ UNCHANGED <<route, dv, bTasks, mreqs, toolVars, chatVars>>

loadTasksThrow(m) ==
    /\ Owns(m, "list", "list")
    /\ lv' = [lv EXCEPT ![m.owner] = FailedTasks(@)]
    /\ net' = Take(net, m)
    /\ ev' = Event("loadTasks.throw", m.owner, Absent)
    /\ UNCHANGED <<route, dv, bTasks, mreqs, toolVars, chatVars>>

loadStatsSuccess(m) ==
    /\ Owns(m, "list", "stats")
    /\ m.resp.st = "success"
    /\ lv' = [lv EXCEPT ![m.owner].stats = m.resp.stats]
    /\ net' = Take(net, m)
    /\ ev' = Event("loadStats.success", m.owner, Absent)
    /\ UNCHANGED <<route, dv, bTasks, mreqs, toolVars, chatVars>>

\* loadStats after a reply that is not a success: nothing is written
loadStatsError(m) ==
    /\ Owns(m, "list", "stats")
    /\ m.resp.st = "error"
    /\ net' = Take(net, m)
    /\ ev' = Event("loadStats.error", m.owner, Absent)
    /\ UNCHANGED <<route, dv, lv, bTasks, mreqs, toolVars, chatVars>>

loadStatsThrow(m) ==
    /\ Owns(m, "list", "stats")
    /\ net' = Take(net, m)
    /\ ev' = Event("loadStats.throw", m.owner, Absent)
    /\ UNCHANGED <<route, dv, lv, bTasks, mreqs, toolVars, chatVars>>

\* the cancel button of a listed running task
ListClickCancel(j, id) ==
    /\ lv[j].state = "mounted"
    /\ Listed(lv[j], id, {"running"})
    /\ mreqs < MaxTaskReqs
    /\ mreqs' = mreqs + 1
    /\ net' = net (+) SetToBag({TaskMsg("list", j, "cancel", id)})
    /\ ev' = Event("list.cancelTask", j, Absent)
    /\ UNCHANGED <<route, dv, lv, bTasks, toolVars, chatVars>>

\* the delete button of a listed completed or failed task
ListClickDelete(j, id) ==
    /\ lv[j].state = "mounted"
    /\ Listed(lv[j], id, {"completed", "failed"})
    /\ mreqs < MaxTaskReqs
    /\ mreqs' = mreqs + 1
    /\ net' = net (+) SetToBag({TaskMsg("list", j, "delete", id)})
    /\ ev' = Event("list.deleteTask", j, Absent)
    /\ UNCHANGED <<route, dv, lv, bTasks, toolVars, chatVars>>

\* cancelTask / deleteTask of the list view after a success reply:
\* await refreshTasks()
listOpSuccess(m) ==
    /\ m.view = "list"
    /\ m.kind \in {"cancel", "delete"}
    /\ m.resp.st = "success"
    /\ lv' = [lv EXCEPT ![m.owner].loading = TRUE]
    /\ net' = refreshTasks(Take(net, m), m.owner, lv[m.owner].filterStatus)
    /\ ev' = Event("list." \o m.kind \o "Task.success", m.owner, Absent)
    /\ UNCHANGED <<route, dv, bTasks, mreqs, toolVars, chatVars>>

\* after a reply that is not a success, or after a throw (fetch or json()
\* rejects, whatever the backend did): an alert
listOpFailed(m) ==
    /\ m.view = "list"
    /\ m.kind \in {"cancel", "delete"}
    /\ net' = Take(net, m)
    /\ ev' = Event("list." \o m.kind \o "Task.failed", m.owner, m.kind \o " failed")
    /\ UNCHANGED <<route, dv, lv, bTasks, mreqs, toolVars, chatVars>>

\* a click on a listed task: router.push(`/tasks/${taskId}`)
viewTaskDetail(j, id) ==
    /\ lv[j].state = "mounted"
    /\ Listed(lv[j], id, Statuses)
    /\ PushDetail(j, id)
    /\ ev' = Event("viewTaskDetail", j, Absent)
    /\ UNCHANGED <<bTasks, mreqs, toolVars, chatVars>>

(***************************************************************************)
(* The conversations: MainLayout.vue's sidebar, ChatView.vue, the store    *)
(***************************************************************************)
\* the ids the backend gives to conversations, in the order it uses them
ConvOrder == <<"c1", "c2">>

ConvIds == {ConvOrder[i] : i \in 1..Len(ConvOrder)}

NoConvReply == [st |-> "none", id |-> "", list |-> {}]

\* a conversation request; cont is the conversation whose deletion awaits it
ConvMsg(kind, arg, cont) ==
    [kind |-> kind, arg |-> arg, cont |-> cont, resp |-> NoConvReply]

\* store/conversations.ts setCurrentConversationId
setCurrentConversationId(id) == id

\* the first id the backend has not used yet, "" when none is left
FreshConv(b) ==
    IF \E i \in 1..Len(ConvOrder) : ConvOrder[i] \notin b.used
    THEN ConvOrder[CHOOSE i \in 1..Len(ConvOrder) :
                       /\ ConvOrder[i] \notin b.used
                       /\ \A j \in 1..(i-1) : ConvOrder[j] \in b.used]
    ELSE ""

ConvErr(b) == <<[NoConvReply EXCEPT !.st = "err"], b>>

\* the backend opening a conversation for the session
Opened(b) ==
    LET id == FreshConv(b) IN
    <<[NoConvReply EXCEPT !.st = "ok", !.id = id],
      [convs |-> b.convs \cup {id}, used |-> b.used \cup {id}, session |-> id]>>

\* the replies to request m with the backend's conversations after each
ServedConv(m) ==
    CASE m.kind = "list" ->
            {<<[NoConvReply EXCEPT !.st = "ok", !.list = bConvs.convs], bConvs>>,
             ConvErr(bConvs)}
      [] m.kind = "create" ->
            IF FreshConv(bConvs) # "" THEN {Opened(bConvs), ConvErr(bConvs)}
            ELSE {ConvErr(bConvs)}
      [] m.kind = "switch" ->
            IF m.arg \in bConvs.convs
            THEN {<<[NoConvReply EXCEPT !.st = "ok"], [bConvs EXCEPT !.session = m.arg]>>}
            ELSE {ConvErr(bConvs)}
      [] m.kind = "delete" ->
            IF m.arg \in bConvs.convs
            THEN {<<[NoConvReply EXCEPT !.st = "ok"],
                    [bConvs EXCEPT !.convs = @ \ {m.arg},
                                   !.session = IF @ = m.arg THEN "" ELSE @]>>}
            ELSE {ConvErr(bConvs)}
      [] m.kind = "chat" ->
            IF bConvs.session # ""
            THEN {<<[NoConvReply EXCEPT !.st = "ok", !.id = bConvs.session], bConvs>>,
                  ConvErr(bConvs)}
            ELSE IF FreshConv(bConvs) # "" THEN {Opened(bConvs), ConvErr(bConvs)}
            ELSE {ConvErr(bConvs)}

\* the backend answers conversation request m
ServeConv(m) ==
    /\ m.resp.st = "none"
    /\ \E a \in ServedConv(m) :
          /\ cnet' = Take(cnet, m) (+) SetToBag({[m EXCEPT !.resp = a[1]]})
          /\ bConvs' = a[2]
    /\ ev' = Event("backend.conv", m.kind, Absent)
    /\ UNCHANGED <<store, ml, chat, creqs, toolVars, taskVars>>

\* loadConversationsList up to its await loadConversations('')
loadConversationsList(n, cont) == n (+) SetToBag({ConvMsg("list", Absent, cont)})

\* the new-conversation button
createNewConversation ==
    /\ creqs < MaxChatReqs
    /\ creqs' = creqs + 1
    /\ cnet' = cnet (+) SetToBag({ConvMsg("create", Absent, Absent)})
    /\ ev' = Event("createNewConversation", Absent, Absent)
    /\ UNCHANGED <<store, ml, chat, bConvs, toolVars, taskVars>>

\* data.conversation_id: both ids are set and the list is reloaded
createSuccess(m) ==
    /\ m.kind = "create"
    /\ m.resp.st = "ok"
    /\ ml' = [ml EXCEPT !.currentConversationId = m.resp.id]
    /\ store' = setCurrentConversationId(m.resp.id)
    /\ cnet' = loadConversationsList(Take(cnet, m), Absent)
    /\ ev' = Event("createNewConversation.success", m.resp.id, Absent)
    /\ UNCHANGED <<chat, bConvs, creqs, toolVars, taskVars>>

\* no conversation_id in the reply, or the request throws (at any point of
\* the exchange, here and in the other failure handlers)
createFailed(m) ==
    /\ m.kind = "create"
    /\ cnet' = Take(cnet, m)
    /\ ev' = Event("createNewConversation.failed", Absent, Absent)
    /\ UNCHANGED <<store, ml, chat, bConvs, creqs, toolVars, taskVars>>

\* a click on a conversation of the sidebar
switchConversationHandler(id) ==
    /\ id \in ml.conversations
    /\ creqs < MaxChatReqs
    /\ creqs' = creqs + 1
    /\ cnet' = cnet (+) SetToBag({ConvMsg("switch", id, Absent)})
    /\ ev' = Event("switchConversation", id, Absent)
    /\ UNCHANGED <<store, ml, chat, bConvs, toolVars, taskVars>>

\* res.ok
switchSuccess(m) ==
    /\ m.kind = "switch"
    /\ m.resp.st = "ok"
    /\ ml' = [ml EXCEPT !.currentConversationId = m.arg]
    /\ store' = setCurrentConversationId(m.arg)
    /\ cnet' = Take(cnet, m)
    /\ ev' = Event("switchConversation.success", m.arg, Absent)
    /\ UNCHANGED <<chat, bConvs, creqs, toolVars, taskVars>>

switchFailed(m) ==
    /\ m.kind = "switch"
    /\ cnet' = Take(cnet, m)
    /\ ev' = Event("switchConversation.failed", m.arg, Absent)
    /\ UNCHANGED <<store, ml, chat, bConvs, creqs, toolVars, taskVars>>

\* the delete button of a conversation of the sidebar, confirmed
deleteConversationHandler(id) ==
    /\ id \in ml.conversations
    /\ creqs < MaxChatReqs
    /\ creqs' = creqs + 1
    /\ cnet' = cnet (+) SetToBag({ConvMsg("delete", id, Absent)})
    /\ ev' = Event("deleteConversation", id, Absent)
    /\ UNCHANGED <<store, ml, chat, bConvs, toolVars, taskVars>>

\* res.ok: the handler awaits loadConversationsList
deleteSuccess(m) ==
    /\ m.kind = "delete"
    /\ m.resp.st = "ok"
    /\ cnet' = loadConversationsList(Take(cnet, m), m.arg)
    /\ ev' = Event("deleteConversation.ok", m.arg, Absent)
    /\ UNCHANGED <<store, ml, chat, bConvs, creqs, toolVars, taskVars>>

deleteFailed(m) ==
    /\ m.kind = "delete"
    /\ cnet' = Take(cnet, m)
    /\ ev' = Event("deleteConversation.failed", m.arg, Absent)
    /\ UNCHANGED <<store, ml, chat, bConvs, creqs, toolVars, taskVars>>

\* deleteConversationHandler after loadConversationsList has returned:
\* if (currentConversationId.value === conversationId) both ids are cleared
Cleared(l, st, id) ==
    IF l.currentConversationId = id
    THEN <<[l EXCEPT !.currentConversationId = ""], setCurrentConversationId("")>>
    ELSE <<l, st>>

\* loadConversationsList resumes on m; the deletion that awaited it goes on
ListLoaded(m, l) ==
    /\ LET after == IF m.cont = Absent THEN <<l, store>> ELSE Cleared(l, store, m.cont)
       IN  /\ ml' = after[1]
           /\ store' = after[2]
    /\ cnet' = Take(cnet, m)
    /\ ev' = IF m.cont = Absent THEN Event("loadConversationsList", Absent, Absent)
             ELSE Event("deleteConversation.done", m.cont, Absent)
    /\ UNCHANGED <<chat, bConvs, creqs, toolVars, taskVars>>

\* data.conversations
loadListSuccess(m) ==
    /\ m.kind = "list"
    /\ m.resp.st = "ok"
    /\ ListLoaded(m, [ml EXCEPT !.conversations = m.resp.list])

\* no conversations in the reply, or the request throws: caught and logged
loadListFailed(m) ==
    /\ m.kind = "list"
    /\ ListLoaded(m, ml)

\* ChatView's send button, disabled while isLoading
sendMessage ==
    /\ ~chat.isLoading
    /\ creqs < MaxChatReqs
    /\ creqs' = creqs + 1
    /\ chat' = [chat EXCEPT !.isLoading = TRUE]
    /\ cnet' = cnet (+) SetToBag({ConvMsg("chat", Absent, Absent)})
    /\ ev' = Event("sendMessage", Absent, Absent)
    /\ UNCHANGED <<store, ml, bConvs, toolVars, taskVars>>

\* data.response: the store's id is set to data.conversation_id (the history
\* load that follows is chatStore's and does not touch the ids)
sendSuccess(m) ==
    /\ m.kind = "chat"
    /\ m.resp.st = "ok"
    /\ store' = setCurrentConversationId(m.resp.id)
    /\ chat' = [chat EXCEPT !.isLoading = FALSE]
    /\ cnet' = Take(cnet, m)
    /\ ev' = Event("sendMessage.success", m.resp.id, Absent)
    /\ UNCHANGED <<ml, bConvs, creqs, toolVars, taskVars>>

\* apiFetch throws on a reply that is not ok, or the request fails
sendFailed(m) ==
    /\ m.kind = "chat"
    /\ chat' = [chat EXCEPT !.isLoading = FALSE]
    /\ cnet' = Take(cnet, m)
    /\ ev' = Event("sendMessage.failed", Absent, Absent)
    /\ UNCHANGED <<store, ml, bConvs, creqs, toolVars, taskVars>>

(***************************************************************************)
(* The task monitor's specification                                        *)
(***************************************************************************)
\* the tasks the backend may hold when the dashboard opens
InitBackends ==
    { [t \in TaskIds |-> IF t = "t1" THEN "running" ELSE "pending"] }

\* the tool view is not open
ToolsIdle ==
    /\ tools = <<>>
    /\ pendingChanges = <<>>
    /\ loadingAll = FALSE
    /\ saving = FALSE
    /\ tnet = <<>>
    /\ treqs = 0
    /\ sTools \in {[n \in ToolNames |-> [enabled |-> TRUE, active |-> TRUE]]}
    /\ stageLog = NoLog
    /\ okRun = 0

\* the chat view is not in use
ChatIdle ==
    /\ store = ""
    /\ ml = [currentConversationId |-> "", conversations |-> {}]
    /\ chat = [isLoading |-> FALSE]
    /\ cnet = EmptyBag
    /\ bConvs = [convs |-> {}, used |-> {}, session |-> ""]
    /\ creqs = 0

\* the task views are not open
MonitorIdle ==
    /\ route = [name |-> "tools", id |-> Absent, visited |-> {}]
    /\ dv = [i \in Views |-> DetailUnborn]
    /\ lv = [j \in Views |-> ListUnborn]
    /\ net = EmptyBag
    /\ bTasks \in {[t \in TaskIds |-> "pending"]}
    /\ mreqs = 0

\* the dashboard opens on /tasks or on /tasks/:id; the session history may
\* hold task-detail entries of an earlier load
MonitorInit ==
    /\ ToolsIdle
    /\ ChatIdle
    /\ bTasks \in InitBackends
    /\ mreqs = 0
    /\ ev = Event("onMounted", Absent, Absent)
    /\ \/ /\ route = [name |-> "tasks", id |-> Absent, visited |-> {}]
          /\ dv = [i \in Views |-> DetailUnborn]
          /\ lv = [j \in Views |-> IF j = 1 THEN ListMounted ELSE ListUnborn]
          /\ net = refreshTasks(EmptyBag, 1, "")
       \/ \E id \in TaskIds, seen \in SUBSET TaskIds :
          /\ route = [name |-> "task-detail", id |-> id, visited |-> seen \cup {id}]
          /\ dv = [i \in Views |-> IF i = 1 THEN DetailMounted ELSE DetailUnborn]
          /\ lv = [j \in Views |-> ListUnborn]
          /\ net = loadTask(EmptyBag, 1, id)

MonitorNext ==
    \/ \E t \in TaskIds : BackendStep(t)
    \/ \E m \in BagToSet(net) : Serve(m)
    \/ \E i \in Views : DetailTick(i)
    \/ \E i \in Views : ClickRefreshTask(i)
    \/ \E i \in Views : DetailClickCancel(i)
    \/ \E i \in Views : DetailClickDelete(i)
    \/ \E i \in Views : goBack(i)
    \/ \E i \in Views, id \in TaskIds : Retarget(i, id)
    \/ \E m \in BagToSet(net) : loadTaskSuccess(m)
    \/ \E m \in BagToSet(net) : loadTaskError(m)
    \/ \E m \in BagToSet(net) : loadTaskThrow(m)
    \/ \E m \in BagToSet(net) : detailCancelSuccess(m)
    \/ \E m \in BagToSet(net) : detailDeleteSuccess(m)
    \/ \E m \in BagToSet(net) : detailOpFailed(m)
    \/ \E j \in Views : ClickRefreshTasks(j)
    \/ \E j \in Views, f \in Filters : ChangeFilter(j, f)
    \/ \E j \in Views : toggleAutoRefresh(j)
    \/ \E j \in Views : ListTick(j)
    \/ \E j \in Views, id \in TaskIds : ListClickCancel(j, id)
    \/ \E j \in Views, id \in TaskIds : ListClickDelete(j, id)
    \/ \E j \in Views, id \in TaskIds : viewTaskDetail(j, id)
    \/ \E m \in BagToSet(net) : loadTasksSuccess(m)
    \/ \E m \in BagToSet(net) : loadTasksError(m)
    \/ \E m \in BagToSet(net) : loadTasksThrow(m)
    \/ \E m \in BagToSet(net) : loadStatsSuccess(m)
    \/ \E m \in BagToSet(net) : loadStatsError(m)
    \/ \E m \in BagToSet(net) : loadStatsThrow(m)
    \/ \E m \in BagToSet(net) : listOpSuccess(m)
    \/ \E m \in BagToSet(net) : listOpFailed(m)

SpecMonitor == MonitorInit /\ [][MonitorNext]_vars

\* the detail view polling its task, with the user refreshing and moving
\* through the history
PollInit == MonitorInit /\ route.name = "task-detail"

PollNext ==
    \/ \E t \in TaskIds : BackendStep(t)
    \/ \E m \in BagToSet(net) : Serve(m)
    \/ \E i \in Views : DetailTick(i)
    \/ \E i \in Views : ClickRefreshTask(i)
    \/ \E i \in Views, id \in TaskIds : Retarget(i, id)
    \/ \E m \in BagToSet(net) : loadTaskSuccess(m)
    \/ \E m \in BagToSet(net) : loadTaskError(m)
    \/ \E m \in BagToSet(net) : loadTaskThrow(m)

SpecPoll == PollInit /\ [][PollNext]_vars

\* the user moving between the list and the detail view while the timers
\* run, with no earlier history
NavInit == MonitorInit /\ route.visited \subseteq {route.id}

NavNext ==
    \/ \E m \in BagToSet(net) : Serve(m)
    \/ \E i \in Views : DetailTick(i)
    \/ \E i \in Views : goBack(i)
    \/ \E m \in BagToSet(net) : loadTaskSuccess(m)
    \/ \E m \in BagToSet(net) : loadTaskError(m)
    \/ \E m \in BagToSet(net) : loadTaskThrow(m)
    \/ \E j \in Views : toggleAutoRefresh(j)
    \/ \E j \in Views : ListTick(j)
    \/ \E j \in Views, id \in TaskIds : viewTaskDetail(j, id)
    \/ \E m \in BagToSet(net) : loadTasksSuccess(m)
    \/ \E m \in BagToSet(net) : loadTasksError(m)
    \/ \E m \in BagToSet(net) : loadTasksThrow(m)
    \/ \E m \in BagToSet(net) : loadStatsSuccess(m)
    \/ \E m \in BagToSet(net) : loadStatsError(m)
    \/ \E m \in BagToSet(net) : loadStatsThrow(m)

SpecNav == NavInit /\ [][NavNext]_vars

\* the timers of a view that stays open: the detail view polling, the list
\* view with auto-refresh toggled on and off, replies delayed, failed and
\* lost, the backend's tasks at rest
TicksNext ==
    \/ \E m \in BagToSet(net) : Serve(m)
    \/ \E i \in Views : DetailTick(i)
    \/ \E m \in BagToSet(net) : loadTaskSuccess(m)
    \/ \E m \in BagToSet(net) : loadTaskError(m)
    \/ \E m \in BagToSet(net) : loadTaskThrow(m)
    \/ \E j \in Views : toggleAutoRefresh(j)
    \/ \E j \in Views : ListTick(j)
    \/ \E m \in BagToSet(net) : loadTasksSuccess(m)
    \/ \E m \in BagToSet(net) : loadTasksError(m)
    \/ \E m \in BagToSet(net) : loadTasksThrow(m)
    \/ \E m \in BagToSet(net) : loadStatsSuccess(m)
    \/ \E m \in BagToSet(net) : loadStatsError(m)
    \/ \E m \in BagToSet(net) : loadStatsThrow(m)

SpecTicks == NavInit /\ [][TicksNext]_vars

\* the operator refreshing, cancelling and deleting tasks from either view
\* and moving through the history, while the detail view polls; the
\* backend's tasks change by these requests only
OpsNext ==
    \/ \E m \in BagToSet(net) : Serve(m)
    \/ \E i \in Views : DetailTick(i)
    \/ \E i \in Views : ClickRefreshTask(i)
    \/ \E j \in Views : ClickRefreshTasks(j)
    \/ \E i \in Views : DetailClickCancel(i)
    \/ \E i \in Views : DetailClickDelete(i)
    \/ \E i \in Views, id \in TaskIds : Retarget(i, id)
    \/ \E m \in BagToSet(net) : loadTaskSuccess(m)
    \/ \E m \in BagToSet(net) : loadTaskError(m)
    \/ \E m \in BagToSet(net) : loadTaskThrow(m)
    \/ \E m \in BagToSet(net) : detailCancelSuccess(m)
    \/ \E m \in BagToSet(net) : detailDeleteSuccess(m)
    \/ \E m \in BagToSet(net) : detailOpFailed(m)
    \/ \E j \in Views, id \in TaskIds : ListClickCancel(j, id)
    \/ \E j \in Views, id \in TaskIds : ListClickDelete(j, id)
    \/ \E m \in BagToSet(net) : loadTasksSuccess(m)
    \/ \E m \in BagToSet(net) : loadTasksError(m)
    \/ \E m \in BagToSet(net) : loadTasksThrow(m)
    \/ \E m \in BagToSet(net) : loadStatsSuccess(m)
    \/ \E m \in BagToSet(net) : loadStatsError(m)
    \/ \E m \in BagToSet(net) : loadStatsThrow(m)
    \/ \E m \in BagToSet(net) : listOpSuccess(m)
    \/ \E m \in BagToSet(net) : listOpFailed(m)

SpecOps == MonitorInit /\ [][OpsNext]_vars

\* the list view with its status filter and its auto-refresh toggle
FilterInit == MonitorInit /\ route.name = "tasks"

FilterNext ==
    \/ \E m \in BagToSet(net) : Serve(m)
    \/ \E j \in Views, f \in Filters : ChangeFilter(j, f)
    \/ \E j \in Views : toggleAutoRefresh(j)
    \/ \E j \in Views : ListTick(j)
    \/ \E m \in BagToSet(net) : loadTasksSuccess(m)
    \/ \E m \in BagToSet(net) : loadTasksError(m)
    \/ \E m \in BagToSet(net) : loadTasksThrow(m)
    \/ \E m \in BagToSet(net) : loadStatsSuccess(m)
    \/ \E m \in BagToSet(net) : loadStatsError(m)
    \/ \E m \in BagToSet(net) : loadStatsThrow(m)

SpecFilter == FilterInit /\ [][FilterNext]_vars

\* the list view with its status filter and its refresh button
SelectNext ==
    \/ \E m \in BagToSet(net) : Serve(m)
    \/ \E j \in Views, f \in Filters : ChangeFilter(j, f)
    \/ \E j \in Views : ClickRefreshTasks(j)
    \/ \E m \in BagToSet(net) : loadTasksSuccess(m)
    \/ \E m \in BagToSet(net) : loadTasksError(m)
    \/ \E m \in BagToSet(net) : loadTasksThrow(m)
    \/ \E m \in BagToSet(net) : loadStatsSuccess(m)
    \/ \E m \in BagToSet(net) : loadStatsError(m)
    \/ \E m \in BagToSet(net) : loadStatsThrow(m)

SpecSelect == FilterInit /\ [][SelectNext]_vars

\* the detail view left open on one task while every fetch succeeds: the
\* backend answers each request with a success, the reply is delivered, and
\* the interval keeps calling its callback
ServeSuccess(m) ==
    /\ Serve(m)
    /\ \A x \in BagToSet(net') : x.resp.st # "error"

FreshInit == NavInit /\ route.name = "task-detail"

FreshNext ==
    \/ \E t \in TaskIds : BackendStep(t)
    \/ \E m \in BagToSet(net) : ServeSuccess(m)
    \/ \E i \in Views : DetailTick(i)
    \/ \E i \in Views : ClickRefreshTask(i)
    \/ \E m \in BagToSet(net) : loadTaskSuccess(m)

SpecFresh ==
    /\ FreshInit
    /\ [][FreshNext]_vars
    /\ WF_vars(\E m \in BagToSet(net) : ServeSuccess(m))
    /\ WF_vars(\E m \in BagToSet(net) : loadTaskSuccess(m))
    /\ WF_vars(\E i \in Views : DetailTick(i))

\* the detail view opened from a session history that holds the entries of
\* a running task and of a task the backend has deleted since
AbsentInit ==
    /\ ToolsIdle
    /\ ChatIdle
    /\ bTasks = [t \in TaskIds |-> IF t = "t1" THEN "running" ELSE Gone]
    /\ mreqs = 0
    /\ ev = Event("onMounted", Absent, Absent)
    /\ \E id \in TaskIds :
          /\ route = [name |-> "task-detail", id |-> id, visited |-> TaskIds]
          /\ net = loadTask(EmptyBag, 1, id)
    /\ dv = [i \in Views |-> IF i = 1 THEN DetailMounted ELSE DetailUnborn]
    /\ lv = [j \in Views |-> ListUnborn]

SpecAbsent == AbsentInit /\ [][PollNext]_vars

(***************************************************************************)
(* The tool view's specifications                                          *)
(***************************************************************************)
\* the configurations the backend may hold when the view mounts
InitServerTools ==
    { [n \in ToolNames |-> [enabled |-> (n = "fetch"), active |-> FALSE]],
      [n \in ToolNames |-> [enabled |-> TRUE, active |-> TRUE]] }

\* the view just mounted: onMounted has called loadTools
ToolsInit ==
    /\ tools = <<>>
    /\ pendingChanges = <<>>
    /\ loadingAll = TRUE
    /\ saving = FALSE
    /\ tnet = loadTools(<<>>, "top")
    /\ treqs = 0
    /\ sTools \in InitServerTools
    /\ stageLog = NoLog
    /\ okRun = 0
    /\ ev = Event("onMounted", Absent, Absent)
    /\ MonitorIdle
    /\ ChatIdle

\* what the operator can do through the view's buttons, the backend's
\* answers and the continuations of the handlers
ToolsNext ==
    \/ \E n \in ToolNames : ClickEnable(n)
    \/ \E n \in ToolNames : ClickDisable(n)
    \/ ClickRefresh
    \/ ClickSave
    \/ \E i \in 1..Len(tnet) : ServeTools(i)
    \/ \E i \in 1..Len(tnet) : ServeSaveOk(i)
    \/ \E i \in 1..Len(tnet) : ServeSaveErr(i)
    \/ \E i \in 1..Len(tnet) : loadToolsOk(i)
    \/ \E i \in 1..Len(tnet) : loadToolsNotOk(i)
    \/ \E i \in 1..Len(tnet) : loadToolsThrow(i)
    \/ \E i \in 1..Len(tnet) : saveOk(i)
    \/ \E i \in 1..Len(tnet) : saveNotOk(i)
    \/ \E i \in 1..Len(tnet) : saveThrow(i)

SpecTools == ToolsInit /\ [][ToolsNext]_vars

\* the view's stage and reload functions called in any order, with any tool
\* name, whatever the buttons allow
StageNext ==
    \/ \E n \in ToolNames : enableTool(n)
    \/ \E n \in ToolNames : disableTool(n)
    \/ CallLoadTools
    \/ \E i \in 1..Len(tnet) : ServeTools(i)
    \/ \E i \in 1..Len(tnet) : loadToolsOk(i)
    \/ \E i \in 1..Len(tnet) : loadToolsNotOk(i)
    \/ \E i \in 1..Len(tnet) : loadToolsThrow(i)

SpecStage == ToolsInit /\ [][StageNext]_vars

\* the view after its first failed flush: the list was loaded from the
\* configuration cfg, the operator staged the opposite of tool n's enabled
\* flag and saved, and the backend refused the batch with an error body
FlushRefused ==
    \E cfg \in InitServerTools, n \in ToolNames, body \in ErrBodies :
        LET on == ~cfg[n].enabled
            buf == IF on THEN EnableBuffer(<<>>, n) ELSE DisableBuffer(<<>>, n)
            m == [SaveMsg(SaveBody(buf)) EXCEPT
                     !.resp = [NoResp EXCEPT !.st = "err", !.body = body]]
        IN  /\ tools = SetShown(ToolList(cfg), n, on)
            /\ pendingChanges = buf
            /\ loadingAll = FALSE
            /\ saving = FALSE
            /\ tnet = <<>>
            /\ treqs = 1
            /\ sTools = cfg
            /\ stageLog = [NoLog EXCEPT ![n] = Logged(<<>>, IF on THEN "enable" ELSE "disable")]
            /\ okRun = 0
            /\ ev = Event("saveAndReload.notok", m, SaveFailedNotice(body))

RefusedInit == FlushRefused /\ MonitorIdle /\ ChatIdle

\* the view in front of a backend that refuses every batch and applies none
RefusedNext ==
    \/ \E n \in ToolNames : ClickEnable(n)
    \/ \E n \in ToolNames : ClickDisable(n)
    \/ ClickRefresh
    \/ ClickSave
    \/ \E i \in 1..Len(tnet) : ServeTools(i)
    \/ \E i \in 1..Len(tnet) : ServeSaveErr(i)
    \/ \E i \in 1..Len(tnet) : loadToolsOk(i)
    \/ \E i \in 1..Len(tnet) : loadToolsNotOk(i)
    \/ \E i \in 1..Len(tnet) : loadToolsThrow(i)
    \/ \E i \in 1..Len(tnet) : saveNotOk(i)
    \/ \E i \in 1..Len(tnet) : saveThrow(i)

SpecRefused == RefusedInit /\ [][RefusedNext]_vars

\* the operator's buttons with the flush function called whatever its
\* button allows
CallsNext ==
    \/ \E n \in ToolNames : ClickEnable(n)
    \/ \E n \in ToolNames : ClickDisable(n)
    \/ saveAndReload
    \/ \E i \in 1..Len(tnet) : ServeTools(i)
    \/ \E i \in 1..Len(tnet) : ServeSaveOk(i)
    \/ \E i \in 1..Len(tnet) : ServeSaveErr(i)
    \/ \E i \in 1..Len(tnet) : loadToolsOk(i)
    \/ \E i \in 1..Len(tnet) : loadToolsNotOk(i)
    \/ \E i \in 1..Len(tnet) : loadToolsThrow(i)
    \/ \E i \in 1..Len(tnet) : saveOk(i)
    \/ \E i \in 1..Len(tnet) : saveNotOk(i)
    \/ \E i \in 1..Len(tnet) : saveThrow(i)

SpecCalls == ToolsInit /\ [][CallsNext]_vars

\* the conversations the backend may hold when the dashboard opens
InitConvs ==
    { [convs |-> {}, used |-> {}, session |-> ""],
      [convs |-> {"c1"}, used |-> {"c1"}, session |-> "c1"] }

\* MainLayout mounted on the chat view: onMounted has called
\* loadConversationsList
ChatInit ==
    /\ ToolsIdle
    /\ MonitorIdle
    /\ store = ""
    /\ ml = [currentConversationId |-> "", conversations |-> {}]
    /\ chat = [isLoading |-> FALSE]
    /\ cnet = loadConversationsList(EmptyBag, Absent)
    /\ bConvs \in InitConvs
    /\ creqs = 0
    /\ ev = Event("onMounted", Absent, Absent)

ChatNext ==
    \/ createNewConversation
    \/ \E id \in ConvIds : switchConversationHandler(id)
    \/ \E id \in ConvIds : deleteConversationHandler(id)
    \/ sendMessage
    \/ \E m \in BagToSet(cnet) : ServeConv(m)
    \/ \E m \in BagToSet(cnet) : createSuccess(m)
    \/ \E m \in BagToSet(cnet) : createFailed(m)
    \/ \E m \in BagToSet(cnet) : switchSuccess(m)
    \/ \E m \in BagToSet(cnet) : switchFailed(m)
    \/ \E m \in BagToSet(cnet) : deleteSuccess(m)
    \/ \E m \in BagToSet(cnet) : deleteFailed(m)
    \/ \E m \in BagToSet(cnet) : loadListSuccess(m)
    \/ \E m \in BagToSet(cnet) : loadListFailed(m)
    \/ \E m \in BagToSet(cnet) : sendSuccess(m)
    \/ \E m \in BagToSet(cnet) : sendFailed(m)

SpecChat == ChatInit /\ [][ChatNext]_vars

(***************************************************************************)
(* Properties of the pending-change buffer                                 *)
(***************************************************************************)
\* the positions of the buffer that hold an entry for tool n
EntriesOf(n) == {i \in 1..Len(pendingChanges) : TagName(pendingChanges[i]) = n}

ToolFetches(q) == Cardinality({i \in 1..Len(q) : q[i].kind = "tools"})

FlushFailures == {"saveAndReload.notok", "saveAndReload.throw"}

ReloadEnds == {"loadTools.ok", "loadTools.notok", "loadTools.throw"}

\* C1: after any sequence of enableTool / disableTool calls the buffer holds
\* at most one entry per tool name; a tool staged since the buffer was last
\* cleared has exactly one entry, the intent of the latest stage call.
C1_OneEntryPerTool ==
    \A n \in ToolNames :
        /\ Cardinality(EntriesOf(n)) <= 1
        /\ \A i \in EntriesOf(n) :
              /\ stageLog[n] # <<>>
              /\ TagOp(pendingChanges[i]) = stageLog[n][Len(stageLog[n])]
        /\ stageLog[n] # <<>> => EntriesOf(n) # {}

\* stage(enable, search) then stage(disable, search) left disable:search alone
C1_Witness ==
    /\ stageLog["search"] = <<"enable", "disable">>
    /\ pendingChanges = <<Tag("disable", "search")>>

\* C2: a flush of a non-empty buffer sends exactly one save-and-reload
\* request whose changes are exactly the buffered entries, each an enable or a
\* disable tag; when the request succeeds the buffer becomes empty and one
\* fetch of the tool list is issued.
C2_FlushSendsBuffer ==
    [][ /\ ev'.op = "saveAndReload" =>
              /\ Len(pendingChanges) > 0
              /\ Len(tnet') = Len(tnet) + 1
              /\ SubSeq(tnet', 1, Len(tnet)) = tnet
              /\ tnet'[Len(tnet')].kind = "save"
              /\ tnet'[Len(tnet')].resp.st = "none"
              /\ Range(tnet'[Len(tnet')].changes) = Range(pendingChanges)
              /\ \A c \in Range(tnet'[Len(tnet')].changes) :
                    TagOp(c) \in {"enable", "disable"} /\ TagName(c) \in ToolNames
        /\ ev'.op = "saveAndReload.ok" =>
              /\ pendingChanges' = <<>>
              /\ ToolFetches(tnet') = ToolFetches(tnet) + 1
              /\ tnet'[Len(tnet')].kind = "tools"
              /\ tnet'[Len(tnet')].resp.st = "none"
      ]_vars

\* the flush of {enable:search, disable:fetch} has succeeded: the buffer is
\* empty and the reload is in flight
C2_Witness ==
    /\ ev.op = "saveAndReload.ok"
    /\ Range(ev.arg.changes) = {Tag("enable", "search"), Tag("disable", "fetch")}
    /\ pendingChanges = <<>>
    /\ \E i \in 1..Len(tnet) : tnet[i].kind = "tools" /\ tnet[i].cont = "save"

\* C3 as stated: after a failed flush with no stage call since it started, the
\* buffer is the buffer of the moment the flush started, and the flush issued
\* no fetch of the tool list.
C3_Original ==
    [][ (ev'.op \in FlushFailures /\ ~ev'.arg.staged) =>
            /\ pendingChanges' = ev'.arg.changes
            /\ ToolFetches(tnet') = ToolFetches(tnet)
      ]_vars

\* C3 amended: the same, given that no reload has cleared the buffer since
\* the flush started either.
C3_FailedFlushKeepsBuffer ==
    [][ (ev'.op \in FlushFailures /\ ~ev'.arg.staged /\ ~ev'.arg.reloaded) =>
            /\ pendingChanges' = ev'.arg.changes
            /\ pendingChanges' = pendingChanges
            /\ ToolFetches(tnet') = ToolFetches(tnet)
      ]_vars

\* a flush has failed with nothing staged or reloaded meanwhile, and the
\* buffer still holds what was sent
C3_Witness ==
    /\ ev.op \in FlushFailures
    /\ ~ev.arg.staged
    /\ ~ev.arg.reloaded
    /\ Len(pendingChanges) > 0
    /\ pendingChanges = ev.arg.changes

\* C4: every reload that has run to completion leaves the buffer empty,
\* whatever the outcome of the fetch; on a success reply the displayed list
\* is the list of the reply.
C4_ReloadEmptiesBuffer ==
    /\ ev.op \in ReloadEnds => pendingChanges = <<>>
    /\ ev.op = "loadTools.ok" => tools = ev.arg.resp.tools

DetailShown(d) == <<d.task, d.steps, d.loading>>

ListShown(l) == <<l.tasks, l.stats, l.loading>>

FetchFailures ==
    {"loadTask.error", "loadTask.throw", "loadTasks.error", "loadTasks.throw",
     "loadStats.error", "loadStats.throw"}

\* C5: a tick of the detail view's timer issues a detail fetch for the
\* current target when the displayed status is running and only then; with
\* any other displayed status, or no task loaded, the tick issues no request
\* and changes nothing in the view; the timer stays armed in both cases.
C5_TickFetchesOnlyWhenRunning ==
    [][ev'.op = "detail.tick" =>
          LET i == ev'.arg IN
          /\ dv[i].task.status = "running" => net' = loadTask(net, i, RouteId)
          /\ dv[i].task.status # "running" => net' = net /\ dv' = dv
          /\ dv'[i].armed]_vars

\* a tick has fired on a view that shows a completed task, and no request is
\* in flight
C5_Witness ==
    /\ ev.op = "detail.tick"
    /\ dv[ev.arg].task.status = "completed"
    /\ dv[ev.arg].armed
    /\ net = EmptyBag

\* C6: once the backend has completed the target of a detail view, at most
\* one further tick of that view issues a detail fetch for it, under every
\* interleaving of ticks and replies.
C6_OneFetchAfterCompletion == \A i \in Views : dv[i].late <= 1

\* C7: a success reply to a detail fetch for a task that is no longer the
\* target of the mounted detail view changes neither the task nor the steps
\* the view displays.
C7_StaleReplyIgnored ==
    [][\A m \in BagToSet(net) :
          (loadTaskSuccess(m) /\ dv[m.owner].state = "mounted" /\ m.arg # RouteId)
          => /\ dv'[m.owner].task = dv[m.owner].task
             /\ dv'[m.owner].steps = dv[m.owner].steps]_vars

\* C8: once a task view is unmounted, no step writes its task, steps,
\* tasks, stats or loading.
C8_LateReplyDiscarded ==
    [][/\ \A i \in Views :
             dv[i].state = "unmounted" => DetailShown(dv'[i]) = DetailShown(dv[i])
       /\ \A j \in Views :
             lv[j].state = "unmounted" => ListShown(lv'[j]) = ListShown(lv[j])]_vars

\* C9: the step that unmounts a detail view or a list view leaves the view's
\* interval cancelled, it stays cancelled, and every tick is the tick of a
\* mounted view.
C9_UnmountCancelsTimer ==
    [][/\ \A i \in Views : dv'[i].state = "unmounted" => ~dv'[i].armed
       /\ \A j \in Views : lv'[j].state = "unmounted" => lv'[j].armed = 0
       /\ ev'.op = "detail.tick" => dv[ev'.arg].state = "mounted"
       /\ ev'.op = "list.tick" => lv[ev'.arg].state = "mounted"]_vars

\* a list view was unmounted with auto-refresh on and its interval is
\* cancelled, while the detail view opened from it has its interval armed
C9_Witness ==
    \E i \in Views, j \in Views :
        /\ lv[j].state = "unmounted"
        /\ lv[j].autoRefresh
        /\ lv[j].refreshInterval
        /\ lv[j].armed = 0
        /\ dv[i].state = "mounted"
        /\ dv[i].armed

\* C10: the handling of a failed fetch of the list, the stats or a task
\* detail (a reply that is not a success, or a throw) writes none of tasks,
\* stats, task and steps of any view.
C10_FailureKeepsSnapshot ==
    [][ev'.op \in FetchFailures =>
          /\ \A i \in Views : dv'[i].task = dv[i].task /\ dv'[i].steps = dv[i].steps
          /\ \A j \in Views : lv'[j].tasks = lv[j].tasks /\ lv'[j].stats = lv[j].stats]_vars

\* a fetch of the list has failed on a list view that shows tasks and stats
C10_Witness ==
    /\ ev.op \in {"loadTasks.error", "loadTasks.throw"}
    /\ lv[ev.arg].state = "mounted"
    /\ lv[ev.arg].tasks # <<>>
    /\ ~lv[ev.arg].stats.null
    /\ ~lv[ev.arg].loading

\* C11: the handling of a failed fetch (a reply that is not a success, or a
\* throw) leaves the interval of every view as it was and raises nothing:
\* the timer of a mounted view stays armed, and the next tick of the detail
\* view fetches exactly when the displayed status is running, the next tick
\* of the list view always.
C11_FailedTickKeepsTimer ==
    [][/\ ev'.op \in FetchFailures =>
             /\ \A i \in Views : dv'[i].armed = dv[i].armed
             /\ \A j \in Views : lv'[j].armed = lv[j].armed
             /\ ev'.alert = Absent
       /\ \A i \in Views : dv[i].state = "mounted" => dv[i].armed
       /\ \A j \in Views : lv[j].state = "mounted" => (lv[j].armed = 1) = lv[j].autoRefresh
       /\ (ev.op \in FetchFailures /\ ev'.op = "detail.tick") =>
             (net' # net) = (dv[ev'.arg].task.status = "running")
       /\ (ev.op \in FetchFailures /\ ev'.op = "list.tick") =>
             net' = refreshTasks(net, ev'.arg, lv[ev'.arg].filterStatus)]_vars

\* a tick of the detail view has fetched, a fetch of the view has then
\* failed, the view still shows a running task and its timer is armed
C11_Witness ==
    /\ ev.op \in {"loadTask.error", "loadTask.throw"}
    /\ mreqs >= 1
    /\ mreqs < MaxTaskReqs
    /\ dv[ev.arg].state = "mounted"
    /\ dv[ev.arg].task.status = "running"
    /\ dv[ev.arg].armed

\* C12: after a success reply to a detail fetch is handled, the displayed
\* steps are result.steps of the replied task when the reply has them and
\* the empty sequence otherwise, so task and steps come from the same reply.
C12_StepsFollowReply ==
    [][\A m \in BagToSet(net) :
          loadTaskSuccess(m) =>
             /\ dv'[m.owner].task = m.resp.task
             /\ dv'[m.owner].steps =
                   IF m.resp.task.hasSteps THEN m.resp.task.steps ELSE <<>>]_vars

\* C13: the step of enableTool(x) for a tool x of the displayed list leaves
\* x displayed with enabled and active true, the step of disableTool(x) with
\* both false, with no flush needed; the other tools are displayed as before.
C13_StageShowsIntent ==
    [][(ev'.op \in {"enableTool", "disableTool"} /\ FindTool(tools, ev'.arg) # 0) =>
          LET x == FindTool(tools, ev'.arg)
              v == (ev'.op = "enableTool")
          IN  /\ Len(tools') = Len(tools)
              /\ tools'[x].name = ev'.arg
              /\ tools'[x].enabled = v
              /\ tools'[x].active = v
              /\ \A i \in 1..Len(tools) : i # x => tools'[i] = tools[i]
              /\ tnet' = MarkStaged(tnet)]_vars

\* enableTool has run on a tool the backend holds disabled and inactive, no
\* flush was started, and the tool is displayed enabled and active
C13_Witness ==
    /\ ev.op = "enableTool"
    /\ FindTool(tools, ev.arg) # 0
    /\ tools[FindTool(tools, ev.arg)].enabled
    /\ tools[FindTool(tools, ev.arg)].active
    /\ ~sTools[ev.arg].enabled
    /\ ~sTools[ev.arg].active
    /\ \A i \in 1..Len(tnet) : tnet[i].kind # "save"

CancelOps ==
    {"cancelTask", "cancelTask.success", "cancelTask.failed",
     "list.cancelTask", "list.cancelTask.success", "list.cancelTask.failed"}

\* the steps of cancelTask write no displayed task
CancelKeepsDisplay ==
    ev'.op \in CancelOps =>
       /\ \A i \in Views : dv'[i].task = dv[i].task /\ dv'[i].steps = dv[i].steps
       /\ \A j \in Views : lv'[j].tasks = lv[j].tasks

\* a cancel that is rejected or fails sends nothing and raises a notice
CancelFailureSendsNothing ==
    \A m \in BagToSet(net) :
        ((detailOpFailed(m) \/ listOpFailed(m)) /\ m.kind = "cancel") =>
           net' = Take(net, m) /\ ev'.alert # Absent

\* the list view's cancel refreshes list and stats on a success reply
ListCancelRefreshes ==
    \A m \in BagToSet(net) :
        (listOpSuccess(m) /\ m.kind = "cancel") =>
           net' = refreshTasks(Take(net, m), m.owner, lv[m.owner].filterStatus)

C15_DeleteRemovesTask ==
    [][\A m \in BagToSet(net) :
          /\ (listOpSuccess(m) /\ m.kind = "delete") =>
                \A j \in Views :
                   lv'[j].state = "mounted" => ~Listed(lv'[j], m.arg, Statuses)
          /\ detailDeleteSuccess(m) => route'.name # "task-detail"
          /\ ((detailOpFailed(m) \/ listOpFailed(m)) /\ m.kind = "delete") =>
                /\ route' = route
                /\ \A j \in Views : lv'[j].tasks = lv[j].tasks]_vars

\* C16: a cancel request names a task that the sending view displays as
\* running, and a delete request a task that it displays as completed or
\* failed.
C16_RequestMatchesDisplay ==
    [][/\ \A i \in Views :
             /\ DetailClickCancel(i) =>
                   dv[i].task.task_id = RouteId /\ dv[i].task.status = "running"
             /\ DetailClickDelete(i) =>
                   /\ dv[i].task.task_id = RouteId
                   /\ dv[i].task.status \in {"completed", "failed"}
       /\ \A j \in Views, id \in TaskIds :
             /\ ListClickCancel(j, id) => Listed(lv[j], id, {"running"})
             /\ ListClickDelete(j, id) => Listed(lv[j], id, {"completed", "failed"})]_vars

\* C17: when the reply to a detail fetch says that the backend does not
\* have the task, the detail view is left in a state other than the one a
\* transport failure of the same fetch leaves (the catch branch of loadTask,
\* followed by finally).
C17_NotFoundDistinct ==
    [][\A m \in BagToSet(net) :
          (loadTaskError(m) /\ bTasks[m.arg] = Gone) =>
             dv'[m.owner] # [dv[m.owner] EXCEPT !.loading = FALSE]]_vars

\* C18: while the detail view stays mounted on its task, the fetches succeed
\* and the ticks of its timer keep firing, once the backend has the task as
\* completed or failed the view eventually displays that status, whether the
\* task was pending or running when the view was opened.
C18_EventuallyFresh ==
    ([]<>(ev.op = "detail.tick")) =>
       \A i \in Views :
          []((/\ dv[i].state = "mounted"
              /\ bTasks[RouteId] \in {"completed", "failed"})
             => <>(dv[i].task.status = bTasks[RouteId]))

\* the same freshness for a task the view displays as running, the status
\* under which the interval callback fetches
C18_FreshWhenShownRunning ==
    ([]<>(ev.op = "detail.tick")) =>
       \A i \in Views :
          []((/\ dv[i].state = "mounted"
              /\ dv[i].task.status = "running"
              /\ bTasks[RouteId] \in {"completed", "failed"})
             => <>(dv[i].task.status = bTasks[RouteId]))

\* C19: after a failed flush of which the backend applied nothing, a
\* successful reload displays for every tool the enabled and active values
\* the backend had before the flush: the backend's configuration is left as
\* it was and the list the reload displays is that configuration's.
C19_FailedFlushNotShown ==
    [][ /\ sTools' = sTools
        /\ \A i \in 1..Len(tnet) : loadToolsOk(i) => tools' = ToolList(sTools)
      ]_vars

\* a reload after the refused flush has succeeded: the staged change is not
\* displayed any more
C19_Witness ==
    /\ ev.op = "loadTools.ok"
    /\ pendingChanges = <<>>
    /\ tools = ToolList(sTools)

\* C20: a successful reload that follows a successful reload, with no stage
\* call, no failed reload and no change of the backend's configuration
\* between them, leaves the displayed tool list and the buffer as the first
\* left them, the buffer empty.
C20_ReloadIdempotent ==
    [][ /\ sTools' = sTools
        /\ \A i \in 1..Len(tnet) :
              (okRun >= 1 /\ loadToolsOk(i)) =>
                 /\ tools' = tools
                 /\ pendingChanges' = pendingChanges
                 /\ pendingChanges' = <<>>
      ]_vars

\* the second of two successful reloads in a row has been displayed
C20_Witness ==
    /\ okRun = 2
    /\ ev.op = "loadTools.ok"
    /\ tools = ToolList(sTools)
    /\ pendingChanges = <<>>

\* C21: saveAndReload called with an empty buffer raises a notice and does
\* nothing else: no request is sent, the saving flag, the buffer and the
\* displayed tool list are left as they were; a flush request is only ever
\* sent from a non-empty buffer.
C21_EmptyFlushIsNoOp ==
    [][ /\ ev'.op = "saveAndReload.empty" =>
              /\ Len(pendingChanges) = 0
              /\ ev'.alert # Absent
              /\ tnet' = tnet
              /\ treqs' = treqs
              /\ saving' = saving
              /\ pendingChanges' = pendingChanges
              /\ tools' = tools
              /\ sTools' = sTools
        /\ ev'.op = "saveAndReload" => Len(pendingChanges) > 0
        /\ \A i \in 1..Len(tnet') : tnet'[i].kind = "save" => tnet'[i].changes # <<>>
      ]_vars

\* the flush was called on an empty buffer with a loaded list
C21_Witness ==
    /\ ev.op = "saveAndReload.empty"
    /\ pendingChanges = <<>>
    /\ tools # <<>>
    /\ ~saving
    /\ \A i \in 1..Len(tnet) : tnet[i].kind # "save"

\* C22: the notice of a flush refused with an error body is the message
\* getErrorMessage takes from that body: the value under error when only
\* error is present, the value under detail when only detail is present,
\* and never a missing value when either key carries a message.
C22_NoticeFromEitherKey ==
    [][ ev'.op = "saveAndReload.notok" =>
           /\ ev'.alert = getErrorMessage(ev'.arg.resp.body)
           /\ ev'.alert # Absent
      ]_vars

C24_LastSnapshotWins ==
    [][ /\ \A m \in BagToSet(net) :
              (/\ loadTaskSuccess(m)
               /\ ev.op = "loadTask.success" /\ ev.arg = m.owner
               /\ dv[m.owner].task.task_id = m.arg) =>
                 /\ dv'[m.owner].task = m.resp.task
                 /\ dv'[m.owner].steps = m.resp.task.steps
        /\ \A m \in BagToSet(net) :
              (/\ loadTasksSuccess(m)
               /\ ev.op = "loadTasks.success" /\ ev.arg = m.owner) =>
                 lv'[m.owner].tasks = m.resp.tasks
      ]_vars

\* the same for the displayed task alone
C24_LastTaskWins ==
    [][\A m \in BagToSet(net) :
          (/\ loadTaskSuccess(m)
           /\ ev.op = "loadTask.success" /\ ev.arg = m.owner
           /\ dv[m.owner].task.task_id = m.arg) =>
             dv'[m.owner].task = m.resp.task
      ]_vars

\* C25: in every state of the tool view the displayed enabled flag of each
\* tool is the staged intent when the buffer holds an entry for the tool and
\* the value of the last successfully fetched list when it holds none. (The
\* backend's configuration does not change in the specification checked, so
\* every successful fetch returned the list of sTools.)
C25_ShownIsApplied ==
    \A k \in 1..Len(tools) :
        LET n == tools[k].name IN
        tools[k].enabled =
            IF EntriesOf(n) # {}
            THEN \E i \in EntriesOf(n) : TagOp(pendingChanges[i]) = "enable"
            ELSE sTools[n].enabled

\* C26: a stage call (enableTool or disableTool) sends no request and leaves
\* the backend's configuration and the loading and saving flags alone; the
\* buffer entries of the other tools and the displayed fields of the other
\* tools are as before, and for a name that is not in the displayed list the
\* displayed list is unchanged.
C26_StageFrame ==
    [][ev'.op \in {"enableTool", "disableTool"} =>
          LET n == ev'.arg
              others(buf) == SelectSeq(buf, LAMBDA c : TagName(c) # n)
          IN  /\ treqs' = treqs
              /\ Len(tnet') = Len(tnet)
              /\ \A i \in 1..Len(tnet) :
                    /\ tnet'[i].kind = tnet[i].kind
                    /\ tnet'[i].resp = tnet[i].resp
                    /\ tnet'[i].changes = tnet[i].changes
              /\ sTools' = sTools
              /\ loadingAll' = loadingAll
              /\ saving' = saving
              /\ others(pendingChanges') = others(pendingChanges)
              /\ Len(tools') = Len(tools)
              /\ \A i \in 1..Len(tools) :
                    /\ tools'[i].name = tools[i].name
                    /\ tools[i].name # n => tools'[i] = tools[i]
              /\ FindTool(tools, n) = 0 => tools' = tools
      ]_vars

\* disableTool(fetch) has run with enable:search buffered: the entry and the
\* display of search are as they were
C26_Witness ==
    /\ ev.op = "disableTool"
    /\ ev.arg = "fetch"
    /\ pendingChanges = <<Tag("enable", "search"), Tag("disable", "fetch")>>
    /\ FindTool(tools, "search") # 0
    /\ tools[FindTool(tools, "search")].enabled
    /\ ~tools[FindTool(tools, "fetch")].enabled
    /\ sTools["fetch"].enabled

\* C27: when the handler of a successful deletion has run to its end, the
\* store's current-conversation id does not refer to the deleted
\* conversation, whichever component set it last.
C27_StoreForgetsDeleted ==
    [][ev'.op = "deleteConversation.done" => store' # ev'.arg]_vars

\* C28: while the list view is mounted its interval is armed exactly when
\* the auto-refresh flag is on and at most one interval is armed; a toggle
\* flips the flag, and turning it off leaves no interval armed; a tick of the
\* interval issues the list fetch, with the status filter selected at that
\* tick, and the stats fetch.
C28_TimerFollowsToggle ==
    [][ /\ \A j \in Views :
              lv[j].state = "mounted" =>
                 /\ lv[j].armed \in {0, 1}
                 /\ (lv[j].armed = 1) = lv[j].autoRefresh
        /\ ev'.op = "toggleAutoRefresh" =>
              /\ lv'[ev'.arg].autoRefresh = ~lv[ev'.arg].autoRefresh
              /\ lv[ev'.arg].autoRefresh => lv'[ev'.arg].armed = 0
              /\ net' = net
        /\ ev'.op = "list.tick" =>
              /\ lv[ev'.arg].autoRefresh
              /\ net' = net (+) SetToBag({TaskMsg("list", ev'.arg, "list", lv[ev'.arg].filterStatus),
                                        TaskMsg("list", ev'.arg, "stats", Absent)})
      ]_vars

\* the filter was changed to running and a tick of the armed interval has
\* fetched the running tasks
C28_Witness ==
    /\ ev.op = "list.tick"
    /\ lv[ev.arg].filterStatus = "running"
    /\ lv[ev.arg].autoRefresh
    /\ lv[ev.arg].armed = 1
    /\ mreqs = 2
    /\ \E m \in BagToSet(net) : m.kind = "list" /\ m.arg = "running" /\ m.resp.st = "none"

\* C30: with a status filter selected, every task of the visible list
\* (filteredTasks) has the status of the filter, whatever list the last
\* reply carried, a reply to a request made under an earlier filter included.
C30_VisibleMatchesFilter ==
    \A j \in Views :
        (lv[j].state = "mounted" /\ lv[j].filterStatus # "") =>
            \A x \in 1..Len(filteredTasks(lv[j])) :
                filteredTasks(lv[j])[x].status = lv[j].filterStatus

\* the reply to the unfiltered request of onMounted was displayed after the
\* filter was changed to running: the fetched list holds a pending task, the
\* visible list does not
C30_Witness ==
    /\ ev.op = "loadTasks.success"
    /\ lv[ev.arg].filterStatus = "running"
    /\ \E x \in 1..Len(lv[ev.arg].tasks) : lv[ev.arg].tasks[x].status = "pending"
    /\ Len(filteredTasks(lv[ev.arg])) = 1
    /\ filteredTasks(lv[ev.arg])[1].status = "running"

\* C29: with the save button as the only way to flush, at most one flush is
\* under way at any time (its save-and-reload request in flight, or the
\* reload it awaits), the saving flag is true exactly while one is, so the
\* button stays disabled until the flush has ended, and the flag is false
\* again after every outcome.
C29_OneFlushAtATime ==
    LET flushing == {i \in 1..Len(tnet) :
                        \/ tnet[i].kind = "save"
                        \/ tnet[i].kind = "tools" /\ tnet[i].cont = "save"}
    IN  /\ Cardinality(flushing) <= 1
        /\ saving = (flushing # {})
        /\ ev.op \in FlushFailures => ~saving
        /\ (ev.op \in ReloadEnds /\ ev.arg.cont = "save") => ~saving

\* the reload after a successful flush has failed and the flag is false again
C29_Witness ==
    /\ ev.op \in {"loadTools.notok", "loadTools.throw"}
    /\ ev.arg.cont = "save"
    /\ ~saving
    /\ \A i \in 1..Len(tnet) : tnet[i].kind # "save"

====
